---- MODULE Spec2Model ----
(***************************************************************************)
(* The serializers of the "Persistence" lesson (inflammation/serializers.py *)
(* as given in the lesson page): Serializer, ObservationSerializer,         *)
(* PatientSerializer and PatientJSONSerializer, together with the parts of  *)
(* Python they rest on: attribute access, iteration, dict.pop, keyword      *)
(* unpacking into a constructor, json.dump / json.load over a text file.    *)
(*                                                                         *)
(* Python values are tagged tuples; JSON text is a sequence of tokens; a    *)
(* call either returns a value, <<"ok", v>>, or raises, <<"raise", e>>.     *)
(***************************************************************************)
EXTENDS Integers, Sequences, FiniteSets, TLC

(***************************************************************************)
(* Bounds of the checked instances.                                        *)
(***************************************************************************)
MaxPatients == 2
MaxObs == 2
MaxSaves == 2

(***************************************************************************)
(* Python values.                                                          *)
(***************************************************************************)
PyInt(n) == <<"int", n>>
PyStr(s) == <<"str", s>>
PyList(xs) == <<"list", xs>>
\* A dict is its items, <<key, value>>, in insertion order; keys are strings.
PyDict(kvs) == <<"dict", kvs>>
\* An instance of a class json cannot encode and that has no fields of ours.
Opaque == <<"object", 0>>
None == <<"none", 0>>

Tag(v) == v[1]

Ok(v) == <<"ok", v>>
Raise(e) == <<"raise", e>>
IsOk(r) == r[1] = "ok"
IsRaise(r) == r[1] = "raise"
Val(r) == r[2]
Exc(r) == r[2]

\* The sequence s without its i-th element.
RemoveAt(s, i) == [j \in 1..(Len(s) - 1) |-> IF j < i THEN s[j] ELSE s[j + 1]]

Min(S) == CHOOSE x \in S : \A y \in S : x <= y

(***************************************************************************)
(* inflammation/models.py: the record types.  Plain data holders; the      *)
(* constructor stores what it is given.                                    *)
(***************************************************************************)
Observation(day, value) == <<"Observation", day, value>>
Patient(name, observations) == <<"Patient", name, observations>>

\* The constructor's parameters, in order, every one required in the calls made.
ModelParams(model) ==
  IF model = "Observation" THEN <<"day", "value">> ELSE <<"name", "observations">>

\* o.attr
GetAttr(o, attr) ==
  CASE Tag(o) = "Observation" /\ attr = "day" -> Ok(o[2])
    [] Tag(o) = "Observation" /\ attr = "value" -> Ok(o[3])
    [] Tag(o) = "Patient" /\ attr = "name" -> Ok(o[2])
    [] Tag(o) = "Patient" /\ attr = "observations" -> Ok(o[3])
    [] OTHER -> Raise("AttributeError")

(***************************************************************************)
(* Python: dicts, iteration, list comprehension, keyword unpacking.         *)
(***************************************************************************)
Items(d) == d[2]
DictKeys(d) == {Items(d)[i][1] : i \in 1..Len(Items(d))}
\* The position of key k among the items of d, 0 when absent.
DictIndex(d, k) ==
  LET hit == {i \in 1..Len(Items(d)) : Items(d)[i][1] = k}
  IN IF hit = {} THEN 0 ELSE Min(hit)
DictGet(d, k) == Items(d)[DictIndex(d, k)][2]
\* d[k] = v: an existing key keeps its place, a new one goes last.
DictSet(d, k, v) ==
  IF DictIndex(d, k) = 0 THEN PyDict(Append(Items(d), <<k, v>>))
  ELSE PyDict([Items(d) EXCEPT ![DictIndex(d, k)] = <<k, v>>])

\* An iteration that needs a first element.
Iter_nonempty(v) ==
  CASE Tag(v) = "list" -> IF Len(v[2]) = 0 THEN Raise("IndexError") ELSE Ok(v[2])
    [] Tag(v) = "dict" -> Ok([i \in 1..Len(Items(v)) |-> PyStr(Items(v)[i][1])])
    [] Tag(v) \in {"int", "none", "object", "Observation", "Patient"} -> Raise("TypeError")

\* iter(v): the elements a for loop or a comprehension walks over.  (No str
\* is iterated in the instances explored.)
Iter(v) ==
  CASE Tag(v) = "list" -> Ok(v[2])
    [] Tag(v) = "dict" -> Ok([i \in 1..Len(Items(v)) |-> PyStr(Items(v)[i][1])])
    [] Tag(v) \in {"int", "none", "object", "Observation", "Patient"} -> Raise("TypeError")

\* [F(x) for x in iterable]: the first element that raises ends it.
ListComp(F(_), iterable) ==
  LET it == Iter(iterable) IN
  IF IsRaise(it) THEN it
  ELSE LET xs == Val(it)
           rs == [i \in 1..Len(xs) |-> F(xs[i])]
           bad == {i \in 1..Len(xs) : IsRaise(rs[i])}
       IN IF bad = {} THEN Ok(PyList([i \in 1..Len(xs) |-> Val(rs[i])]))
          ELSE rs[Min(bad)]

\* cls.model called with d unpacked into keyword arguments: d must be a
\* mapping, and its keys exactly the parameters.
CallModel(model, d) ==
  IF Tag(d) # "dict" THEN Raise("TypeError")
  ELSE LET ps == ModelParams(model) IN
       IF DictKeys(d) # {ps[i] : i \in 1..Len(ps)} THEN Raise("TypeError")
       ELSE Ok(<<model, DictGet(d, ps[1]), DictGet(d, ps[2])>>)

(***************************************************************************)
(* inflammation/serializers.py                                             *)
(***************************************************************************)
\* A serialize that stores each field under the other's key.
ObservationSerializer_serialize_one_swapped(instance) ==
  LET day == GetAttr(instance, "day") IN
  IF IsRaise(day) THEN day
  ELSE LET value == GetAttr(instance, "value") IN
       IF IsRaise(value) THEN value
       ELSE Ok(PyDict(<< <<"day", Val(value)>>, <<"value", Val(day)>> >>))

\* The dict ObservationSerializer.serialize builds of one instance.
ObservationSerializer_serialize_one(instance) ==
  LET day == GetAttr(instance, "day") IN
  IF IsRaise(day) THEN day
  ELSE LET value == GetAttr(instance, "value") IN
       IF IsRaise(value) THEN value
       ELSE Ok(PyDict(<< <<"day", Val(day)>>, <<"value", Val(value)>> >>))

\* A serialize that goes through the instances from the last to the first.
ObservationSerializer_serialize_reversed(instances) ==
  IF Tag(instances) = "list"
  THEN ListComp(ObservationSerializer_serialize_one,
                PyList([i \in 1..Len(Items(instances)) |->
                          Items(instances)[Len(Items(instances)) + 1 - i]]))
  ELSE ListComp(ObservationSerializer_serialize_one, instances)

ObservationSerializer_serialize(instances) ==
  ListComp(ObservationSerializer_serialize_one, instances)

ObservationSerializer_deserialize_one(d) == CallModel("Observation", d)

\* A deserialize that returns no observation, whatever it is given.
ObservationSerializer_deserialize_dropping(data) ==
  IF IsOk(ListComp(ObservationSerializer_deserialize_one, data))
  THEN Ok(PyList(<<>>))
  ELSE ListComp(ObservationSerializer_deserialize_one, data)

ObservationSerializer_deserialize(data) ==
  ListComp(ObservationSerializer_deserialize_one, data)

\* A serialize that leaves the observations as the Observation objects they are.
PatientSerializer_serialize_one_shallow(instance) ==
  LET name == GetAttr(instance, "name") IN
  IF IsRaise(name) THEN name
  ELSE LET observations == GetAttr(instance, "observations") IN
       IF IsRaise(observations) THEN observations
       ELSE Ok(PyDict(<< <<"name", Val(name)>>, <<"observations", Val(observations)>> >>))

\* The dict PatientSerializer.serialize builds of one instance.
PatientSerializer_serialize_one(instance) ==
  LET name == GetAttr(instance, "name") IN
  IF IsRaise(name) THEN name
  ELSE LET observations == GetAttr(instance, "observations") IN
       IF IsRaise(observations) THEN observations
       ELSE LET obs == ObservationSerializer_serialize(Val(observations)) IN
            IF IsRaise(obs) THEN obs
            ELSE Ok(PyDict(<< <<"name", Val(name)>>, <<"observations", Val(obs)>> >>))

PatientSerializer_serialize(instances) ==
  ListComp(PatientSerializer_serialize_one, instances)

\* A pop with a default: an absent key gives an empty list.
Pop_default(item, k) ==
  CASE Tag(item) = "dict" ->
         IF DictIndex(item, k) = 0
         THEN [res |-> Ok(PyList(<<>>)), item |-> item]
         ELSE [res |-> Ok(DictGet(item, k)),
               item |-> PyDict(RemoveAt(Items(item), DictIndex(item, k)))]
    [] Tag(item) = "list" -> [res |-> Raise("TypeError"), item |-> item]
    [] OTHER -> [res |-> Raise("AttributeError"), item |-> item]

\* item.pop('observations'): the value and what is left of item, or the error.
Pop(item, k) ==
  CASE Tag(item) = "dict" ->
         IF DictIndex(item, k) = 0
         THEN [res |-> Raise("KeyError"), item |-> item]
         ELSE [res |-> Ok(DictGet(item, k)),
               item |-> PyDict(RemoveAt(Items(item), DictIndex(item, k)))]
    [] Tag(item) = "list" -> [res |-> Raise("TypeError"), item |-> item]
    [] OTHER -> [res |-> Raise("AttributeError"), item |-> item]

\* A deserialize that hands the constructor the name and the observations only.
PatientSerializer_deserialize_item_named(item) ==
  LET popped == Pop(item, "observations") IN
  IF IsRaise(popped.res) THEN popped
  ELSE LET obs == ObservationSerializer_deserialize(Val(popped.res)) IN
       IF IsRaise(obs) THEN [res |-> obs, item |-> popped.item]
       ELSE LET set == DictSet(popped.item, "observations", Val(obs))
            IN [res |-> IF DictIndex(set, "name") = 0 THEN Raise("KeyError")
                        ELSE Ok(Patient(DictGet(set, "name"), Val(obs))),
                item |-> set]

\* A deserialize that hands each mapping to the constructor as it is.
PatientSerializer_deserialize_item_shallow(item) ==
  [res |-> CallModel("Patient", item), item |-> item]

\* One turn of the loop of PatientSerializer.deserialize: the instance built (or
\* the error raised) and item as the turn leaves it.
PatientSerializer_deserialize_item(item) ==
  LET popped == Pop(item, "observations") IN
  IF IsRaise(popped.res) THEN popped
  ELSE LET obs == ObservationSerializer_deserialize(Val(popped.res)) IN
       IF IsRaise(obs) THEN [res |-> obs, item |-> popped.item]
       ELSE LET set == DictSet(popped.item, "observations", Val(obs))
            IN [res |-> CallModel("Patient", set), item |-> set]

\* PatientSerializer.deserialize(data): res is what the call returns or raises,
\* data is the argument as the call leaves it (the items are changed in place,
\* up to and including the one that raised).
PatientSerializer_deserialize(data) ==
  LET it == Iter(data) IN
  IF IsRaise(it) THEN [res |-> it, data |-> data]
  ELSE LET xs == Val(it)
           rs == [i \in 1..Len(xs) |-> PatientSerializer_deserialize_item(xs[i])]
           bad == {i \in 1..Len(xs) : IsRaise(rs[i].res)}
           last == IF bad = {} THEN Len(xs) ELSE Min(bad)
           after == [i \in 1..Len(xs) |-> IF i <= last THEN rs[i].item ELSE xs[i]]
       IN [res |-> IF bad = {} THEN Ok(PyList([i \in 1..Len(xs) |-> Val(rs[i].res)]))
                   ELSE rs[last].res,
           data |-> IF Tag(data) = "list" THEN PyList(after) ELSE data]

(***************************************************************************)
(* json: JSON text is a sequence of tokens: the punctuation [ ] { } , : and *)
(* number and string literals.                                             *)
(***************************************************************************)
P(c) == <<"p", c>>
TNum(n) == <<"num", n>>
TStr(s) == <<"string", s>>

RECURSIVE iterencode(_)
RECURSIVE iterencode_list(_, _)
RECURSIVE iterencode_dict(_, _)

\* JSONEncoder.iterencode(o): the chunks yielded, and whether the generator ran
\* to its end (ok) or raised TypeError at a value json cannot encode.
iterencode(o) ==
  CASE Tag(o) = "int" -> [toks |-> <<TNum(o[2])>>, ok |-> TRUE]
    [] Tag(o) = "str" -> [toks |-> <<TStr(o[2])>>, ok |-> TRUE]
    [] Tag(o) = "list" ->
         IF Len(o[2]) = 0 THEN [toks |-> <<P("["), P("]")>>, ok |-> TRUE]
         ELSE LET r == iterencode_list(o[2], 1)
              IN [toks |-> <<P("[")>> \o r.toks \o (IF r.ok THEN <<P("]")>> ELSE <<>>),
                  ok |-> r.ok]
    [] Tag(o) = "dict" ->
         IF Len(o[2]) = 0 THEN [toks |-> <<P("{"), P("}")>>, ok |-> TRUE]
         ELSE LET r == iterencode_dict(o[2], 1)
              IN [toks |-> <<P("{")>> \o r.toks \o (IF r.ok THEN <<P("}")>> ELSE <<>>),
                  ok |-> r.ok]
    [] OTHER -> [toks |-> <<>>, ok |-> FALSE]

\* The elements of a list from the i-th on, each after its separator.
iterencode_list(xs, i) ==
  IF i > Len(xs) THEN [toks |-> <<>>, ok |-> TRUE]
  ELSE LET sep == IF i = 1 THEN <<>> ELSE <<P(",")>>
           r == iterencode(xs[i])
       IN IF ~r.ok THEN [toks |-> sep \o r.toks, ok |-> FALSE]
          ELSE LET rest == iterencode_list(xs, i + 1)
               IN [toks |-> sep \o r.toks \o rest.toks, ok |-> rest.ok]

\* The items of a dict from the i-th on: separator, key, colon, value.
iterencode_dict(kvs, i) ==
  IF i > Len(kvs) THEN [toks |-> <<>>, ok |-> TRUE]
  ELSE LET sep == IF i = 1 THEN <<>> ELSE <<P(",")>>
           head == sep \o <<TStr(kvs[i][1]), P(":")>>
           r == iterencode(kvs[i][2])
       IN IF ~r.ok THEN [toks |-> head \o r.toks, ok |-> FALSE]
          ELSE LET rest == iterencode_dict(kvs, i + 1)
               IN [toks |-> head \o r.toks \o rest.toks, ok |-> rest.ok]

ParseFail == [ok |-> FALSE, val |-> None, next |-> 0]

RECURSIVE scan_once(_, _)
RECURSIVE parse_array(_, _, _)
RECURSIVE parse_object(_, _, _)

\* A parser that collects the elements of an array last first.
RECURSIVE parse_array_reversed(_, _, _)
parse_array_reversed(toks, i, acc) ==
  LET r == scan_once(toks, i) IN
  IF ~r.ok \/ r.next > Len(toks) THEN ParseFail
  ELSE IF toks[r.next] = P(",") THEN parse_array_reversed(toks, r.next + 1, <<r.val>> \o acc)
  ELSE IF toks[r.next] = P("]")
       THEN [ok |-> TRUE, val |-> PyList(<<r.val>> \o acc), next |-> r.next + 1]
  ELSE ParseFail

\* The JSON value that starts at token i, and the index of the token after it.
scan_once(toks, i) ==
  IF i > Len(toks) THEN ParseFail
  ELSE CASE toks[i][1] = "num" -> [ok |-> TRUE, val |-> PyInt(toks[i][2]), next |-> i + 1]
         [] toks[i][1] = "string" -> [ok |-> TRUE, val |-> PyStr(toks[i][2]), next |-> i + 1]
         [] toks[i] = P("[") ->
              IF i + 1 <= Len(toks) /\ toks[i + 1] = P("]")
              THEN [ok |-> TRUE, val |-> PyList(<<>>), next |-> i + 2]
              ELSE parse_array(toks, i + 1, <<>>)
         [] toks[i] = P("{") ->
              IF i + 1 <= Len(toks) /\ toks[i + 1] = P("}")
              THEN [ok |-> TRUE, val |-> PyDict(<<>>), next |-> i + 2]
              ELSE parse_object(toks, i + 1, PyDict(<<>>))
         [] OTHER -> ParseFail

\* The elements of an array from token i on, acc holding those before.
parse_array(toks, i, acc) ==
  LET r == scan_once(toks, i) IN
  IF ~r.ok \/ r.next > Len(toks) THEN ParseFail
  ELSE IF toks[r.next] = P(",") THEN parse_array(toks, r.next + 1, Append(acc, r.val))
  ELSE IF toks[r.next] = P("]")
       THEN [ok |-> TRUE, val |-> PyList(Append(acc, r.val)), next |-> r.next + 1]
  ELSE ParseFail

\* The members of an object from token i on, acc holding those before; a key
\* that comes again replaces the value it had.
parse_object(toks, i, acc) ==
  IF i + 1 > Len(toks) \/ toks[i][1] # "string" \/ toks[i + 1] # P(":") THEN ParseFail
  ELSE LET r == scan_once(toks, i + 2) IN
       IF ~r.ok \/ r.next > Len(toks) THEN ParseFail
       ELSE LET acc2 == DictSet(acc, toks[i][2], r.val) IN
            IF toks[r.next] = P(",") THEN parse_object(toks, r.next + 1, acc2)
            ELSE IF toks[r.next] = P("}")
                 THEN [ok |-> TRUE, val |-> acc2, next |-> r.next + 1]
            ELSE ParseFail

\* A loads that takes the first JSON value of the text and ignores what follows.
json_loads_first_value(text) ==
  LET r == scan_once(text, 1) IN
  IF r.ok THEN Ok(r.val) ELSE Raise("JSONDecodeError")

\* json.loads(text): the whole text must be one JSON value.
json_loads(text) ==
  LET r == scan_once(text, 1) IN
  IF r.ok /\ r.next = Len(text) + 1 THEN Ok(r.val) ELSE Raise("JSONDecodeError")

\* A token that is no JSON literal and no punctuation (a bare word).
TWord(w) == <<"word", w>>

(***************************************************************************)
(* Classes and method resolution.                                          *)
(***************************************************************************)
Classes == {"Serializer", "ObservationSerializer", "PatientSerializer",
            "PatientJSONSerializer"}
Ops == {"serialize", "deserialize", "save", "load"}

\* PatientSerializer as a class that derives from the JSON one.
MRO_format_first(cls) ==
  CASE cls = "Serializer" -> <<"Serializer">>
    [] cls = "ObservationSerializer" -> <<"ObservationSerializer", "Serializer">>
    [] cls = "PatientSerializer" ->
         <<"PatientSerializer", "PatientJSONSerializer", "Serializer">>
    [] cls = "PatientJSONSerializer" ->
         <<"PatientJSONSerializer", "PatientSerializer", "Serializer">>

\* The class and its bases, in method resolution order.
MRO(cls) ==
  CASE cls = "Serializer" -> <<"Serializer">>
    [] cls = "ObservationSerializer" -> <<"ObservationSerializer", "Serializer">>
    [] cls = "PatientSerializer" -> <<"PatientSerializer", "Serializer">>
    [] cls = "PatientJSONSerializer" ->
         <<"PatientJSONSerializer", "PatientSerializer", "Serializer">>

\* The methods a class body defines itself.
Defines(cls) ==
  CASE cls = "Serializer" -> {"serialize", "deserialize", "save", "load"}
    [] cls = "ObservationSerializer" -> {"serialize", "deserialize"}
    [] cls = "PatientSerializer" -> {"serialize", "deserialize"}
    [] cls = "PatientJSONSerializer" -> {"save", "load"}

\* The class whose body runs for cls.op.
Resolve(cls, op) ==
  MRO(cls)[Min({i \in 1..Len(MRO(cls)) : op \in Defines(MRO(cls)[i])})]

\* cls.serialize(instances)
Invoke_serialize(cls, instances) ==
  CASE Resolve(cls, "serialize") = "Serializer" -> Raise("NotImplementedError")
    [] Resolve(cls, "serialize") = "ObservationSerializer" ->
         ObservationSerializer_serialize(instances)
    [] Resolve(cls, "serialize") = "PatientSerializer" ->
         PatientSerializer_serialize(instances)

\* cls.deserialize(data): what it returns or raises, and data as it leaves it.
Invoke_deserialize(cls, data) ==
  CASE Resolve(cls, "deserialize") = "Serializer" ->
         [res |-> Raise("NotImplementedError"), data |-> data]
    [] Resolve(cls, "deserialize") = "ObservationSerializer" ->
         [res |-> ObservationSerializer_deserialize(data), data |-> data]
    [] Resolve(cls, "deserialize") = "PatientSerializer" ->
         PatientSerializer_deserialize(data)

(***************************************************************************)
(* Files.                                                                  *)
(***************************************************************************)
Paths == {"patients.json"}
NoFile == [exists |-> FALSE, text |-> <<>>]
File(text) == [exists |-> TRUE, text |-> text]

\* What a file holds once buf, written from its start, has been flushed to it.
Flushed(file, buf) ==
  File(buf \o SubSeq(file.text, Len(buf) + 1, Len(file.text)))

Closed == [open |-> FALSE, buf |-> <<>>]
Opened == [open |-> TRUE, buf |-> <<>>]

(***************************************************************************)
(* The instances explored.  Alice is the first patient of                  *)
(* test_patients_json_serializer, with Observation(i, i + 1) for the first  *)
(* k days, k up to MaxObs; Bob is the second patient of the lesson's JSON   *)
(* example, with one observation; a batch is any sequence of up to          *)
(* MaxPatients of them.                                                    *)
(***************************************************************************)
SeqsUpTo(S, n) == UNION {[1..k -> S] : k \in 0..n}

AliceObs(k) == PyList([i \in 1..k |-> Observation(PyInt(i - 1), PyInt(i))])
BobObs == PyList(<<Observation(PyInt(0), PyInt(10))>>)

ObsLists == {AliceObs(k) : k \in 0..MaxObs} \cup {BobObs}

PatientUniverse ==
  {Patient(PyStr("Alice"), AliceObs(k)) : k \in 0..MaxObs}
    \cup {Patient(PyStr("Bob"), BobObs)}

\* A patient whose observations are not in the order of their days.
Carol == Patient(PyStr("Carol"),
                 PyList(<<Observation(PyInt(1), PyInt(4)), Observation(PyInt(0), PyInt(3))>>))

\* The patients of the lesson's JSON example.
ExamplePatients ==
  PyList(<<Patient(PyStr("Alice"),
                   PyList(<<Observation(PyInt(0), PyInt(3)),
                            Observation(PyInt(1), PyInt(4))>>)),
           Patient(PyStr("Bob"), BobObs)>>)

PatientBatches ==
  {PyList(s) : s \in SeqsUpTo(PatientUniverse, MaxPatients)}
    \cup {PyList(<<Carol>>), ExamplePatients}

\* Arguments that are no batch of patients: an element that is no Patient,
\* observations that cannot be iterated, and values json cannot encode.
BadBatches ==
  { PyList(<<PyInt(5)>>),
    PyList(<<Patient(PyStr("Alice"), AliceObs(1)), PyInt(5)>>),
    PyList(<<Patient(PyStr("Alice"), PyInt(1))>>),
    PyList(<<Patient(Opaque, AliceObs(1))>>),
    PyList(<<Patient(PyStr("Alice"),
                     PyList(<<Observation(PyInt(0), PyInt(1)),
                              Observation(PyInt(1), Opaque)>>))>>) }

BadObsLists == {PyList(<<PyInt(5)>>), PyInt(5)}

\* Generic records.
GObs(day, value) == PyDict(<< <<"day", day>>, <<"value", value>> >>)
GPat(name, observations) == PyDict(<< <<"name", name>>, <<"observations", observations>> >>)

WellFormedData == {Val(PatientSerializer_serialize(b)) : b \in PatientBatches}
WellFormedObsData == {Val(ObservationSerializer_serialize(o)) : o \in ObsLists}

G03 == GObs(PyInt(0), PyInt(3))

\* A required key is absent.
MissingKeyData ==
  { PyList(<<PyDict(<< <<"name", PyStr("Alice")>> >>)>>),
    PyList(<<PyDict(<< <<"observations", PyList(<<G03>>)>> >>)>>),
    PyList(<<GPat(PyStr("Alice"), PyList(<<PyDict(<< <<"day", PyInt(0)>> >>)>>))>>),
    PyList(<<GPat(PyStr("Alice"), PyList(<<PyDict(<< <<"value", PyInt(3)>> >>)>>))>>),
    PyList(<<GPat(PyStr("Alice"), PyList(<<G03>>)),
             PyDict(<< <<"name", PyStr("Bob")>> >>)>>) }

MissingKeyObsData ==
  { PyList(<<PyDict(<< <<"day", PyInt(0)>> >>)>>),
    PyList(<<PyDict(<< <<"value", PyInt(3)>> >>)>>),
    PyList(<<G03, PyDict(<<>>)>>) }

\* A key beyond the required ones is present.
ExtraKeyData ==
  { PyList(<<PyDict(<< <<"name", PyStr("Alice")>>, <<"observations", PyList(<<G03>>)>>,
                       <<"age", PyInt(30)>> >>)>>),
    PyList(<<PyDict(<< <<"age", PyInt(30)>>, <<"name", PyStr("Alice")>>,
                       <<"observations", PyList(<<>>)>> >>)>>),
    PyList(<<GPat(PyStr("Alice"),
                  PyList(<<PyDict(<< <<"day", PyInt(0)>>, <<"value", PyInt(3)>>,
                                     <<"unit", PyStr("mg")>> >>)>>))>>) }

ExtraKeyObsData ==
  { PyList(<<PyDict(<< <<"day", PyInt(0)>>, <<"value", PyInt(3)>>,
                       <<"unit", PyStr("mg")>> >>)>>) }

\* The required keys are there and one holds a value of the wrong primitive type.
WrongTypeData ==
  { PyList(<<GPat(PyInt(7), PyList(<<G03>>))>>),
    PyList(<<GPat(PyStr("Alice"), PyList(<<GObs(PyStr("monday"), PyInt(3))>>))>>),
    PyList(<<GPat(PyStr("Alice"), PyList(<<GObs(PyInt(0), PyStr("high"))>>))>>) }

WrongTypeObsData ==
  { PyList(<<GObs(PyStr("monday"), PyInt(3))>>),
    PyList(<<GObs(PyInt(0), PyStr("high"))>>) }

\* JSON values that are no sequence of mappings, and observations that are none.
WrongShapeData ==
  { PyDict(<<>>),
    GPat(PyStr("Alice"), PyList(<<>>)),
    PyList(<<PyInt(1)>>),
    PyList(<<PyList(<<>>)>>),
    PyInt(5) }

WrongObservationsData ==
  { PyList(<<GPat(PyStr("Alice"), PyInt(1))>>),
    PyList(<<GPat(PyStr("Alice"), PyList(<<PyInt(1)>>))>>) }

MalformedData ==
  MissingKeyData \cup ExtraKeyData \cup WrongTypeData \cup WrongShapeData
    \cup WrongObservationsData

MalformedObsData == MissingKeyObsData \cup ExtraKeyObsData \cup WrongTypeObsData

\* The text json.dump writes of a value it can encode.
Text(v) == iterencode(v).toks

TwoPatients ==
  Val(PatientSerializer_serialize(
        PyList(<<Patient(PyStr("Alice"), AliceObs(2)), Patient(PyStr("Bob"), BobObs)>>)))

\* The lesson's JSON example, token by token (white space is no token).
ExampleText ==
  << P("["),
       P("{"), TStr("name"), P(":"), TStr("Alice"), P(","),
               TStr("observations"), P(":"),
               P("["), P("{"), TStr("day"), P(":"), TNum(0), P(","),
                               TStr("value"), P(":"), TNum(3), P("}"), P(","),
                       P("{"), TStr("day"), P(":"), TNum(1), P(","),
                               TStr("value"), P(":"), TNum(4), P("}"), P("]"),
       P("}"), P(","),
       P("{"), TStr("name"), P(":"), TStr("Bob"), P(","),
               TStr("observations"), P(":"),
               P("["), P("{"), TStr("day"), P(":"), TNum(0), P(","),
                               TStr("value"), P(":"), TNum(10), P("}"), P("]"),
       P("}"),
     P("]") >>

StrictPrefixes(t) == {SubSeq(t, 1, k) : k \in 0..(Len(t) - 1)}

\* Texts that are not JSON: the empty text, a bare word, a document cut short,
\* a document followed by more, a missing comma and a missing colon.
NotJSONTexts ==
  StrictPrefixes(Text(TwoPatients))
    \cup { <<TWord("patients")>>,
           Text(TwoPatients) \o <<P("]")>>,
           Text(TwoPatients) \o Text(TwoPatients),
           <<P("["), TNum(1), TNum(2), P("]")>>,
           <<P("{"), TStr("name"), TStr("Alice"), P("}")>>,
           <<P("["), TNum(1), P(","), P("]")>> }

InitialFiles ==
  {NoFile}
    \cup {File(Text(d)) : d \in MalformedData \cup {TwoPatients}}
    \cup {File(t) : t \in { <<>>, <<TWord("patients")>>,
                            SubSeq(Text(TwoPatients), 1, 9),
                            Text(TwoPatients) \o <<P("]")>>,
                            <<P("["), TNum(1), TNum(2), P("]")>>,
                            <<P("{"), TStr("name"), TStr("Alice"), P("}")>> }}

(***************************************************************************)
(* State.                                                                  *)
(*   fs     the file at each path                                          *)
(*   proc   each caller: where it is in its call (pc), the call (cls, op,   *)
(*          arg, path), the file object it holds (h), the value between two *)
(*          steps (tmp), what the call returned or raised (res), and, kept  *)
(*          for the properties: the argument and the files as the call      *)
(*          found them (arg0, pre), the instances whose serialized form the *)
(*          argument is (origin), the text json.load read (seen) and the    *)
(*          steps the call took (trace), and what the call before it on     *)
(*          the same data object returned (first), and the instances of the *)
(*          saves the caller made to the path just before, in order         *)
(*          (earlier)                                                       *)
(*   saved  per path, the instances of the save that last closed the file   *)
(*          with all its text written, None once a later save has opened it *)
(***************************************************************************)
VARIABLES fs, proc, saved

vars == <<fs, proc, saved>>

Procs == {1, 2}

IdleProc ==
  [pc |-> "idle", cls |-> "", op |-> "", arg |-> None, path |-> "",
   h |-> Closed, tmp |-> None, res |-> None,
   arg0 |-> None, origin |-> None, pre |-> [f \in Paths |-> NoFile], seen |-> <<>>,
   trace |-> <<>>, first |-> None, earlier |-> <<>>]

\* The caller's record as a call of cls.op(arg) or cls.op(arg, path) begins.
Start(cls, op, arg, path) ==
  [IdleProc EXCEPT !.cls = cls, !.op = op, !.arg = arg, !.path = path,
                   !.arg0 = arg, !.pre = fs]

Init ==
  /\ fs \in [Paths -> InitialFiles]
  /\ proc = [p \in Procs |-> IdleProc]
  /\ saved = [f \in Paths |-> None]

\* The arguments tried on the methods of the base class.
BaseArgs == {PyList(<<>>), PyList(<<Carol>>), PyInt(5)}

\* Base methods whose body does nothing and returns None.
Serializer_method_pass(p) ==
  /\ proc[p].pc = "idle"
  /\ \E cls \in Classes, op \in Ops, arg \in BaseArgs, path \in Paths :
       /\ Resolve(cls, op) = "Serializer"
       /\ proc' = [proc EXCEPT ![p] =
                     [Start(cls, op, arg, path) EXCEPT !.pc = "done", !.res = Ok(None)]]
  /\ UNCHANGED <<fs, saved>>

\* Serializer.serialize / save / deserialize / load, on Serializer or inherited.
Serializer_method(p) ==
  /\ proc[p].pc = "idle"
  /\ \E cls \in Classes, op \in Ops, arg \in BaseArgs, path \in Paths :
       /\ Resolve(cls, op) = "Serializer"
       /\ proc' = [proc EXCEPT ![p] =
                     [Start(cls, op, arg, path) EXCEPT
                        !.pc = "done", !.res = Raise("NotImplementedError")]]
  /\ UNCHANGED <<fs, saved>>

SerializeInputs(cls) ==
  IF Resolve(cls, "serialize") = "ObservationSerializer"
  THEN ObsLists \cup BadObsLists
  ELSE PatientBatches \cup BadBatches

DeserializeInputs(cls) ==
  IF Resolve(cls, "deserialize") = "ObservationSerializer"
  THEN WellFormedObsData \cup MalformedObsData
  ELSE WellFormedData \cup MalformedData

\* A serialize that takes the instances out of the caller's list as it goes.
Serialize_consuming(p) ==
  /\ proc[p].pc = "idle"
  /\ \E cls \in {"ObservationSerializer", "PatientSerializer"} :
       \E instances \in SerializeInputs(cls) :
         proc' = [proc EXCEPT ![p] =
                    [Start(cls, "serialize", instances, "") EXCEPT
                       !.pc = "done", !.res = Invoke_serialize(cls, instances),
                       !.arg = PyList(<<>>), !.trace = <<"serialize">>]]
  /\ UNCHANGED <<fs, saved>>

\* A call of ObservationSerializer.serialize or PatientSerializer.serialize.
\* Both bodies are one list comprehension that reads attributes and assigns
\* to nothing of the caller's, so arg is after the call what it was before.
Serialize(p) ==
  /\ proc[p].pc = "idle"
  /\ \E cls \in {"ObservationSerializer", "PatientSerializer"} :
       \E instances \in SerializeInputs(cls) :
         proc' = [proc EXCEPT ![p] =
                    [Start(cls, "serialize", instances, "") EXCEPT
                       !.pc = "done", !.res = Invoke_serialize(cls, instances),
                       !.trace = <<"serialize">>]]
  /\ UNCHANGED <<fs, saved>>

\* A call of ObservationSerializer.deserialize or PatientSerializer.deserialize;
\* arg is the caller's data object as the call leaves it.
Deserialize(p) ==
  /\ proc[p].pc = "idle"
  /\ \E cls \in {"ObservationSerializer", "PatientSerializer"} :
       \E data \in DeserializeInputs(cls) :
         LET r == Invoke_deserialize(cls, data) IN
         proc' = [proc EXCEPT ![p] =
                    [Start(cls, "deserialize", data, "") EXCEPT
                       !.pc = "done", !.res = r.res, !.arg = r.data,
                       !.trace = <<"deserialize">>]]
  /\ UNCHANGED <<fs, saved>>

\* The caller hands what serialize returned to deserialize of the same class.
DeserializeSerialized(p) ==
  /\ proc[p].pc = "done"
  /\ proc[p].op = "serialize"
  /\ IsOk(proc[p].res)
  /\ LET data == Val(proc[p].res)
         r == Invoke_deserialize(proc[p].cls, data)
     IN proc' = [proc EXCEPT ![p] =
                   [Start(proc[p].cls, "deserialize", data, "") EXCEPT
                      !.pc = "done", !.res = r.res, !.arg = r.data,
                      !.origin = proc[p].arg, !.trace = <<"deserialize">>]]
  /\ UNCHANGED <<fs, saved>>

\* The caller hands what deserialize returned to serialize of the same class;
\* origin is the data as it was given to deserialize.
SerializeDeserialized(p) ==
  /\ proc[p].pc = "done"
  /\ proc[p].op = "deserialize"
  /\ proc[p].cls \in {"ObservationSerializer", "PatientSerializer"}
  /\ IsOk(proc[p].res)
  /\ LET instances == Val(proc[p].res) IN
     proc' = [proc EXCEPT ![p] =
                [Start(proc[p].cls, "serialize", instances, "") EXCEPT
                   !.pc = "done", !.res = Invoke_serialize(proc[p].cls, instances),
                   !.origin = proc[p].arg0, !.trace = <<"serialize">>]]
  /\ UNCHANGED <<fs, saved>>

\* The caller hands the data object of a deserialize that returned to
\* deserialize of the same class once more, as that call left it.
DeserializeAgain(p) ==
  /\ proc[p].pc = "done"
  /\ proc[p].op = "deserialize"
  /\ proc[p].cls \in {"ObservationSerializer", "PatientSerializer"}
  /\ IsOk(proc[p].res)
  /\ proc[p].first = None
  /\ LET r == Invoke_deserialize(proc[p].cls, proc[p].arg) IN
     proc' = [proc EXCEPT ![p] =
                [Start(proc[p].cls, "deserialize", proc[p].arg, "") EXCEPT
                   !.pc = "done", !.res = r.res, !.arg = r.data,
                   !.first = proc[p].res, !.trace = <<"deserialize">>]]
  /\ UNCHANGED <<fs, saved>>

\* PatientJSONSerializer.save: open(path, 'w').  The file is created, or cut to
\* nothing, as it is opened; or the open fails and nothing has happened.
SaveOpen(p) ==
  /\ proc[p].pc = "idle"
  /\ \E cls \in Classes, instances \in PatientBatches \cup BadBatches, path \in Paths :
       /\ Resolve(cls, "save") = "PatientJSONSerializer"
       /\ \/ /\ proc' = [proc EXCEPT ![p] =
                           [Start(cls, "save", instances, path) EXCEPT
                              !.pc = "save_opened", !.h = Opened, !.trace = <<"open">>]]
             /\ fs' = [fs EXCEPT ![path] = File(<<>>)]
             /\ saved' = [saved EXCEPT ![path] = None]
          \/ /\ proc' = [proc EXCEPT ![p] =
                           [Start(cls, "save", instances, path) EXCEPT
                              !.pc = "done", !.res = Raise("PermissionError")]]
             /\ UNCHANGED <<fs, saved>>

\* What a caller saves in a save that follows a save.
NextBatches ==
  {PyList(<<>>), PyList(<<Patient(PyStr("Bob"), BobObs)>>), ExamplePatients}

\* A following save that opens the file where it is, without cutting it.
SaveAgain_keeping(p) ==
  /\ proc[p].pc = "done"
  /\ proc[p].op = "save" /\ proc[p].cls = "PatientJSONSerializer"
  /\ IsOk(proc[p].res)
  /\ Len(proc[p].earlier) < MaxSaves - 1
  /\ \E instances \in NextBatches :
       /\ proc' = [proc EXCEPT ![p] =
                     [Start(proc[p].cls, "save", instances, proc[p].path) EXCEPT
                        !.pc = "save_opened", !.h = Opened, !.trace = <<"open">>,
                        !.earlier = Append(proc[p].earlier, proc[p].arg0)]]
       /\ saved' = [saved EXCEPT ![proc[p].path] = None]
       /\ UNCHANGED fs

\* The caller's next statement after a save that returned is a save to the
\* same path: open(path, 'w') as in SaveOpen.
SaveAgain(p) ==
  /\ proc[p].pc = "done"
  /\ proc[p].op = "save" /\ proc[p].cls = "PatientJSONSerializer"
  /\ IsOk(proc[p].res)
  /\ Len(proc[p].earlier) < MaxSaves - 1
  /\ \E instances \in NextBatches :
       \/ /\ proc' = [proc EXCEPT ![p] =
                        [Start(proc[p].cls, "save", instances, proc[p].path) EXCEPT
                           !.pc = "save_opened", !.h = Opened, !.trace = <<"open">>,
                           !.earlier = Append(proc[p].earlier, proc[p].arg0)]]
          /\ fs' = [fs EXCEPT ![proc[p].path] = File(<<>>)]
          /\ saved' = [saved EXCEPT ![proc[p].path] = None]
       \/ /\ proc' = [proc EXCEPT ![p] =
                        [Start(proc[p].cls, "save", instances, proc[p].path) EXCEPT
                           !.pc = "done", !.res = Raise("PermissionError"),
                           !.earlier = Append(proc[p].earlier, proc[p].arg0)]]
          /\ UNCHANGED <<fs, saved>>

\* The caller's next statement after a save that returned is a load of the
\* same path: open(path) as in LoadOpen.
LoadSaved(p) ==
  /\ proc[p].pc = "done"
  /\ proc[p].op = "save" /\ proc[p].cls = "PatientJSONSerializer"
  /\ IsOk(proc[p].res)
  /\ IF fs[proc[p].path].exists
     THEN proc' = [proc EXCEPT ![p] =
                     [Start(proc[p].cls, "load", None, proc[p].path) EXCEPT
                        !.pc = "load_opened", !.h = Opened, !.trace = <<"open">>,
                        !.earlier = Append(proc[p].earlier, proc[p].arg0)]]
     ELSE proc' = [proc EXCEPT ![p] =
                     [Start(proc[p].cls, "load", None, proc[p].path) EXCEPT
                        !.pc = "done", !.res = Raise("FileNotFoundError"),
                        !.earlier = Append(proc[p].earlier, proc[p].arg0)]]
  /\ UNCHANGED <<fs, saved>>

\* The file object is closed as the with block is left: what it buffered is
\* written to the file from the file's start.
CloseWriter(p) == [fs EXCEPT ![proc[p].path] = Flushed(@, proc[p].h.buf)]

\* A save that catches what serialize raises and returns as if nothing happened.
SaveSerialize_swallowing(p) ==
  /\ proc[p].pc = "save_opened"
  /\ LET r == Invoke_serialize(proc[p].cls, proc[p].arg) IN
     IF IsRaise(r)
     THEN /\ proc' = [proc EXCEPT ![p].pc = "done", ![p].res = Ok(None),
                                  ![p].h = Closed,
                                  ![p].trace = @ \o <<"serialize", "close">>]
          /\ fs' = CloseWriter(p)
     ELSE /\ proc' = [proc EXCEPT ![p].pc = "save_serialized", ![p].tmp = Val(r),
                                  ![p].trace = Append(@, "serialize")]
          /\ UNCHANGED fs
  /\ UNCHANGED saved

\* save: cls.serialize(instances), the argument of json.dump.
SaveSerialize(p) ==
  /\ proc[p].pc = "save_opened"
  /\ LET r == Invoke_serialize(proc[p].cls, proc[p].arg) IN
     IF IsRaise(r)
     THEN /\ proc' = [proc EXCEPT ![p].pc = "done", ![p].res = r, ![p].h = Closed,
                                  ![p].trace = @ \o <<"serialize", "close">>]
          /\ fs' = CloseWriter(p)
     ELSE /\ proc' = [proc EXCEPT ![p].pc = "save_serialized", ![p].tmp = Val(r),
                                  ![p].trace = Append(@, "serialize")]
          /\ UNCHANGED fs
  /\ UNCHANGED saved

\* A dump outside any with block: a TypeError leaves the file object open.
SaveDump_leaking(p) ==
  /\ proc[p].pc = "save_serialized"
  /\ LET enc == iterencode(proc[p].tmp) IN
     IF enc.ok
     THEN proc' = [proc EXCEPT ![p].pc = "save_dumped", ![p].h.buf = enc.toks,
                               ![p].trace = Append(@, "write")]
     ELSE proc' = [proc EXCEPT ![p].pc = "done", ![p].res = Raise("TypeError"),
                               ![p].h.buf = enc.toks,
                               ![p].trace = Append(@, "write")]
  /\ UNCHANGED <<fs, saved>>

\* A dump that wraps the records in an object of its own.
SaveDump_enveloped(p) ==
  /\ proc[p].pc = "save_serialized"
  /\ LET enc == iterencode(PyDict(<< <<"patients", proc[p].tmp>> >>)) IN
     IF enc.ok
     THEN /\ proc' = [proc EXCEPT ![p].pc = "save_dumped", ![p].h.buf = enc.toks,
                                  ![p].trace = Append(@, "write")]
          /\ UNCHANGED fs
     ELSE /\ proc' = [proc EXCEPT ![p].pc = "done", ![p].res = Raise("TypeError"),
                                  ![p].h = Closed,
                                  ![p].trace = @ \o <<"write", "close">>]
          /\ fs' = [fs EXCEPT ![proc[p].path] = Flushed(@, enc.toks)]
  /\ UNCHANGED saved

\* save: json.dump(..., jsonfile) writes the chunks to the file object as the
\* encoder yields them; at a value it cannot encode the encoder raises
\* TypeError, and the with block closes the file with the chunks written so far.
SaveDump(p) ==
  /\ proc[p].pc = "save_serialized"
  /\ LET enc == iterencode(proc[p].tmp) IN
     IF enc.ok
     THEN /\ proc' = [proc EXCEPT ![p].pc = "save_dumped", ![p].h.buf = enc.toks,
                                  ![p].trace = Append(@, "write")]
          /\ UNCHANGED fs
     ELSE /\ proc' = [proc EXCEPT ![p].pc = "done", ![p].res = Raise("TypeError"),
                                  ![p].h = Closed,
                                  ![p].trace = @ \o <<"write", "close">>]
          /\ fs' = [fs EXCEPT ![proc[p].path] = Flushed(@, enc.toks)]
  /\ UNCHANGED saved

\* save: the with block ends, the buffered text reaches the file and save
\* returns None; or the device refuses the write and close raises OSError.
SaveClose(p) ==
  /\ proc[p].pc = "save_dumped"
  /\ \/ /\ fs' = CloseWriter(p)
        /\ saved' = [saved EXCEPT ![proc[p].path] = proc[p].arg]
        /\ proc' = [proc EXCEPT ![p].pc = "done", ![p].res = Ok(None), ![p].h = Closed,
                                ![p].trace = Append(@, "close")]
     \/ /\ UNCHANGED <<fs, saved>>
        /\ proc' = [proc EXCEPT ![p].pc = "done", ![p].res = Raise("OSError"),
                                ![p].h = Closed, ![p].trace = Append(@, "close")]

\* A load that opens the file in a mode that creates it when it is not there.
LoadOpen_creating(p) ==
  /\ proc[p].pc = "idle"
  /\ \E cls \in Classes, path \in Paths :
       /\ Resolve(cls, "load") = "PatientJSONSerializer"
       /\ proc' = [proc EXCEPT ![p] =
                     [Start(cls, "load", None, path) EXCEPT
                        !.pc = "load_opened", !.h = Opened, !.trace = <<"open">>]]
       /\ fs' = [fs EXCEPT ![path] = IF @.exists THEN @ ELSE File(<<>>)]
  /\ UNCHANGED saved

\* PatientJSONSerializer.load: open(path).
LoadOpen(p) ==
  /\ proc[p].pc = "idle"
  /\ \E cls \in Classes, path \in Paths :
       /\ Resolve(cls, "load") = "PatientJSONSerializer"
       /\ IF fs[path].exists
          THEN proc' = [proc EXCEPT ![p] =
                          [Start(cls, "load", None, path) EXCEPT
                             !.pc = "load_opened", !.h = Opened, !.trace = <<"open">>]]
          ELSE proc' = [proc EXCEPT ![p] =
                          [Start(cls, "load", None, path) EXCEPT
                             !.pc = "done", !.res = Raise("FileNotFoundError")]]
  /\ UNCHANGED <<fs, saved>>

\* load: data = json.load(jsonfile) reads the file to its end and parses it; a
\* JSONDecodeError leaves through the with block, which closes the file.
LoadRead(p) ==
  /\ proc[p].pc = "load_opened"
  /\ LET text == fs[proc[p].path].text
         r == json_loads(text)
     IN IF IsRaise(r)
        THEN proc' = [proc EXCEPT ![p].pc = "done", ![p].res = r, ![p].h = Closed,
                                  ![p].seen = text,
                                  ![p].trace = @ \o <<"read", "close">>]
        ELSE proc' = [proc EXCEPT ![p].pc = "load_read", ![p].tmp = Val(r),
                                  ![p].seen = text, ![p].trace = Append(@, "read")]
  /\ UNCHANGED <<fs, saved>>

\* A load whose return statement is inside the with block: the file is still
\* open as deserialize is called.
LoadClose_late(p) ==
  /\ proc[p].pc = "load_read"
  /\ proc' = [proc EXCEPT ![p].pc = "load_closed"]
  /\ UNCHANGED <<fs, saved>>

\* load: the with block ends and closes the file.
LoadClose(p) ==
  /\ proc[p].pc = "load_read"
  /\ proc' = [proc EXCEPT ![p].pc = "load_closed", ![p].h = Closed,
                          ![p].trace = Append(@, "close")]
  /\ UNCHANGED <<fs, saved>>

\* load: return cls.deserialize(data).  data is load's own and is gone when it
\* returns; tmp keeps it as json.load gave it.
LoadDeserialize(p) ==
  /\ proc[p].pc = "load_closed"
  /\ LET r == Invoke_deserialize(proc[p].cls, proc[p].tmp) IN
     proc' = [proc EXCEPT ![p].pc = "done", ![p].res = r.res,
                          ![p].trace = Append(@, "deserialize")]
  /\ UNCHANGED <<fs, saved>>

\* The call is over and the caller goes on to its next one.
Return(p) ==
  /\ proc[p].pc = "done"
  /\ proc' = [proc EXCEPT ![p] = IdleProc]
  /\ UNCHANGED <<fs, saved>>

Step(p) ==
  \/ Serializer_method(p)
  \/ Serialize(p)
  \/ Deserialize(p)
  \/ DeserializeSerialized(p)
  \/ SerializeDeserialized(p)
  \/ DeserializeAgain(p)
  \/ SaveOpen(p)
  \/ SaveSerialize(p)
  \/ SaveDump(p)
  \/ SaveClose(p)
  \/ SaveAgain(p)
  \/ LoadSaved(p)
  \/ LoadOpen(p)
  \/ LoadRead(p)
  \/ LoadClose(p)
  \/ LoadDeserialize(p)
  \/ Return(p)

\* One caller, one call at a time.
Next == Step(1)

Spec == Init /\ [][Next]_vars

(***************************************************************************)
(* Two callers at once on the same path, each making saves and loads of    *)
(* PatientJSONSerializer.  Each caller has its own file object, with its   *)
(* own position in the file; the steps of a call are those of the one      *)
(* caller, taken in any interleaving with the other's.                     *)
(***************************************************************************)
ConcBatches ==
  {PyList(<<>>), PyList(<<Patient(PyStr("Bob"), BobObs)>>), ExamplePatients}

ConcFiles == {NoFile, File(Text(TwoPatients))}

ConcInit ==
  /\ Init
  /\ fs \in [Paths -> ConcFiles]

ConcSaveOpen(p) ==
  /\ SaveOpen(p)
  /\ proc'[p].cls = "PatientJSONSerializer"
  /\ proc'[p].arg \in ConcBatches

ConcLoadOpen(p) ==
  /\ LoadOpen(p)
  /\ proc'[p].cls = "PatientJSONSerializer"

ConcStep(p) ==
  \/ ConcSaveOpen(p)
  \/ SaveSerialize(p)
  \/ SaveDump(p)
  \/ SaveClose(p)
  \/ ConcLoadOpen(p)
  \/ LoadRead(p)
  \/ LoadClose(p)
  \/ LoadDeserialize(p)
  \/ Return(p)

ConcNext == \E p \in Procs : ConcStep(p)

ConcSpec == ConcInit /\ [][ConcNext]_vars

(***************************************************************************)
(* The classes as first written: PatientSerializer with no base class and  *)
(* no ObservationSerializer, and PatientJSONSerializer on top of it with   *)
(* the same save and load.                                                 *)
(***************************************************************************)
\* A first version that hands the observations to ObservationSerializer.
PatientSerializer_v1_serialize_one_delegating(instance) ==
  LET name == GetAttr(instance, "name") IN
  IF IsRaise(name) THEN name
  ELSE LET observations == GetAttr(instance, "observations") IN
       IF IsRaise(observations) THEN observations
       ELSE LET obs == ObservationSerializer_serialize(Val(observations)) IN
            IF IsRaise(obs) THEN obs
            ELSE Ok(PyDict(<< <<"name", Val(name)>>, <<"observations", Val(obs)>> >>))

\* The dict the first serialize builds of one instance: the observations are
\* the instance's own list of Observation objects.
PatientSerializer_v1_serialize_one(instance) ==
  LET name == GetAttr(instance, "name") IN
  IF IsRaise(name) THEN name
  ELSE LET observations == GetAttr(instance, "observations") IN
       IF IsRaise(observations) THEN observations
       ELSE Ok(PyDict(<< <<"name", Val(name)>>, <<"observations", Val(observations)>> >>))

PatientSerializer_v1_serialize(instances) ==
  ListComp(PatientSerializer_v1_serialize_one, instances)

PatientSerializer_v1_deserialize_one(d) == CallModel("Patient", d)

PatientSerializer_v1_deserialize(data) ==
  ListComp(PatientSerializer_v1_deserialize_one, data)

V1SaveOpen(p) ==
  /\ SaveOpen(p)
  /\ proc'[p].cls = "PatientJSONSerializer"

\* save: cls.serialize(instances), with the first serialize.
V1SaveSerialize(p) ==
  /\ proc[p].pc = "save_opened"
  /\ LET r == PatientSerializer_v1_serialize(proc[p].arg) IN
     IF IsRaise(r)
     THEN /\ proc' = [proc EXCEPT ![p].pc = "done", ![p].res = r, ![p].h = Closed,
                                  ![p].trace = @ \o <<"serialize", "close">>]
          /\ fs' = CloseWriter(p)
     ELSE /\ proc' = [proc EXCEPT ![p].pc = "save_serialized", ![p].tmp = Val(r),
                                  ![p].trace = Append(@, "serialize")]
          /\ UNCHANGED fs
  /\ UNCHANGED saved

V1LoadOpen(p) ==
  /\ LoadOpen(p)
  /\ proc'[p].cls = "PatientJSONSerializer"

\* load: return cls.deserialize(data), with the first deserialize.
V1LoadDeserialize(p) ==
  /\ proc[p].pc = "load_closed"
  /\ proc' = [proc EXCEPT ![p].pc = "done",
                          ![p].res = PatientSerializer_v1_deserialize(proc[p].tmp),
                          ![p].trace = Append(@, "deserialize")]
  /\ UNCHANGED <<fs, saved>>

V1Step(p) ==
  \/ V1SaveOpen(p)
  \/ V1SaveSerialize(p)
  \/ SaveDump(p)
  \/ SaveClose(p)
  \/ V1LoadOpen(p)
  \/ LoadRead(p)
  \/ LoadClose(p)
  \/ V1LoadDeserialize(p)
  \/ Return(p)

V1Next == V1Step(1)

V1Spec == Init /\ [][V1Next]_vars

(***************************************************************************)
(* The vocabulary of the properties.                                       *)
(***************************************************************************)
Range(s) == {s[i] : i \in 1..Len(s)}

Done(p) == proc[p].pc = "done"

\* The error kinds of the design, as the Python exceptions the code raises:
\* NotImplemented is NotImplementedError; IOError is OSError and its subclasses
\* (FileNotFoundError, PermissionError); FormatError is json.JSONDecodeError;
\* SchemaError is what deserialize raises at a record whose keys are not the
\* constructor's parameters: KeyError (pop of an absent key) and TypeError (a
\* keyword argument missing or unexpected).
ErrorKind(e) ==
  CASE e = "NotImplementedError" -> "NotImplemented"
    [] e \in {"OSError", "FileNotFoundError", "PermissionError"} -> "IOError"
    [] e = "JSONDecodeError" -> "FormatError"
    [] e \in {"KeyError", "TypeError"} -> "SchemaError"
    [] OTHER -> e

Fails(p, kind) == IsRaise(proc[p].res) /\ ErrorKind(Exc(proc[p].res)) = kind

\* The data deserialize was given, in a direct call and inside load.
Given(p) == IF proc[p].op = "load" THEN proc[p].tmp ELSE proc[p].arg0

AliceAndBob ==
  PyList(<<Patient(PyStr("Alice"), AliceObs(2)), Patient(PyStr("Bob"), BobObs)>>)

\* C1: a load that follows a successful save of a batch P of patients to the
\* same path returns P: as many patients, in the same order, each with the same
\* name and the same observations (day and value) in the same order.
C1_SaveLoadRoundTrip ==
  \A p \in Procs :
    (/\ Done(p) /\ proc[p].op = "load" /\ proc[p].cls = "PatientJSONSerializer"
     /\ saved[proc[p].path] \in PatientBatches)
      => proc[p].res = Ok(saved[proc[p].path])

C1_Witness ==
  /\ Done(1) /\ proc[1].op = "load" /\ proc[1].cls = "PatientJSONSerializer"
  /\ saved[proc[1].path] = AliceAndBob
  /\ proc[1].res = Ok(AliceAndBob)

\* C2: deserialize applied to what serialize returned of a batch of patients
\* gives the batch back, field by field, and touches no file.
C2_SerializeDeserialize ==
  \A p \in Procs :
    (/\ Done(p) /\ proc[p].op = "deserialize" /\ proc[p].cls = "PatientSerializer"
     /\ proc[p].origin \in PatientBatches)
      => /\ proc[p].res = Ok(proc[p].origin)
         /\ fs = proc[p].pre
         /\ proc[p].trace = <<"deserialize">>

C2_Witness ==
  /\ Done(1) /\ proc[1].op = "deserialize" /\ proc[1].cls = "PatientSerializer"
  /\ proc[1].origin = PyList(<<Patient(PyStr("Alice"), AliceObs(2))>>)
  /\ proc[1].res = Ok(PyList(<<Patient(PyStr("Alice"), AliceObs(2))>>))

\* C3: serialize, deserialize, save and load called on Serializer itself raise
\* NotImplementedError and do nothing else: no file is opened, created or written.
C3_BaseNotImplemented ==
  \A p \in Procs :
    (Done(p) /\ proc[p].cls = "Serializer")
      => /\ Fails(p, "NotImplemented")
         /\ fs = proc[p].pre
         /\ ~proc[p].h.open
         /\ proc[p].trace = <<>>

C3_Witness ==
  /\ Done(1) /\ proc[1].cls = "Serializer" /\ proc[1].op = "save"
  /\ proc[1].arg = PyList(<<Carol>>)
  /\ proc[1].res = Raise("NotImplementedError")

\* The text a successful save of instances leaves in the file.
SavedText(instances) == Text(Val(PatientSerializer_serialize(instances)))

\* C4: save writes the file in full or leaves it as it was: after a save that
\* raised, the file at path is what it was before the call; after one that
\* returned, it is the whole JSON text of the instances.
C4_SaveAllOrNothing ==
  \A p \in Procs :
    (Done(p) /\ proc[p].op = "save" /\ proc[p].cls = "PatientJSONSerializer")
      => IF IsRaise(proc[p].res)
         THEN fs[proc[p].path] = proc[p].pre[proc[p].path]
         ELSE fs[proc[p].path] = File(SavedText(proc[p].arg))

\* C5: load of a file whose text is not JSON raises json.JSONDecodeError (the
\* FormatError of the design), and deserialize is not reached.
C5_NotJSONIsFormatError ==
  \A p \in Procs :
    (/\ Done(p) /\ proc[p].op = "load" /\ proc[p].cls = "PatientJSONSerializer"
     /\ "read" \in Range(proc[p].trace)
     /\ proc[p].seen \in NotJSONTexts)
      => /\ Fails(p, "FormatError")
         /\ "deserialize" \notin Range(proc[p].trace)

C5_Witness ==
  /\ Done(1) /\ proc[1].op = "load" /\ proc[1].cls = "PatientJSONSerializer"
  /\ proc[1].seen = Text(TwoPatients) \o <<P("]")>>
  /\ proc[1].res = Raise("JSONDecodeError")

IsSeqOfMappings(v) ==
  Tag(v) = "list" /\ \A i \in 1..Len(v[2]) : Tag(v[2][i]) = "dict"

\* C6: load of a file that holds JSON, but not an array of objects, fails with
\* FormatError: it neither returns nor raises anything else.
C6_WrongShapeIsFormatError ==
  \A p \in Procs :
    (/\ Done(p) /\ proc[p].op = "load" /\ proc[p].cls = "PatientJSONSerializer"
     /\ proc[p].tmp # None
     /\ ~IsSeqOfMappings(proc[p].tmp))
      => Fails(p, "FormatError")

\* C7: load of a path at which there is no file raises FileNotFoundError (an
\* OSError, the IOError of the design); deserialize is not invoked and no file
\* comes to be.
C7_MissingFileIsIOError ==
  \A p \in Procs :
    (/\ Done(p) /\ proc[p].op = "load" /\ proc[p].cls = "PatientJSONSerializer"
     /\ ~proc[p].pre[proc[p].path].exists)
      => /\ Fails(p, "IOError")
         /\ "deserialize" \notin Range(proc[p].trace)
         /\ fs = proc[p].pre

C7_Witness ==
  /\ Done(1) /\ proc[1].op = "load" /\ proc[1].cls = "PatientJSONSerializer"
  /\ ~fs[proc[1].path].exists
  /\ proc[1].res = Raise("FileNotFoundError")

\* deserialize of class cls ran in the call of p, on the data Given(p).
Deserialized(p, cls) ==
  /\ Done(p)
  /\ proc[p].op \in {"deserialize", "load"}
  /\ "deserialize" \in Range(proc[p].trace)
  /\ Resolve(proc[p].cls, "deserialize") = cls

RequiredKeys(model) == Range(ModelParams(model))

\* data is a sequence of mappings one of which lacks a key of the model.
LacksKey(data, model) ==
  /\ IsSeqOfMappings(data)
  /\ \E i \in 1..Len(data[2]) : ~(RequiredKeys(model) \subseteq DictKeys(data[2][i]))

\* data is a sequence of mappings one of which has a key that is none of the model's.
HasExtraKey(data, model) ==
  /\ IsSeqOfMappings(data)
  /\ \E i \in 1..Len(data[2]) : ~(DictKeys(data[2][i]) \subseteq RequiredKeys(model))

\* data is a sequence of patient records of which one's observations satisfy Q.
SomeObservations(data, Q(_)) ==
  /\ IsSeqOfMappings(data)
  /\ \E i \in 1..Len(data[2]) :
       /\ DictIndex(data[2][i], "observations") # 0
       /\ Q(DictGet(data[2][i], "observations"))

ObsLacksKey(obs) == LacksKey(obs, "Observation")
ObsHasExtraKey(obs) == HasExtraKey(obs, "Observation")

\* C8: deserialize of records of which one lacks a required key raises a
\* SchemaError (KeyError for an absent observations, TypeError for an absent
\* name, day or value) and returns nothing.
C8_MissingKeyIsSchemaError ==
  \A p \in Procs :
    /\ (Deserialized(p, "PatientSerializer")
         /\ (LacksKey(Given(p), "Patient") \/ SomeObservations(Given(p), ObsLacksKey)))
         => Fails(p, "SchemaError")
    /\ (Deserialized(p, "ObservationSerializer") /\ LacksKey(Given(p), "Observation"))
         => Fails(p, "SchemaError")

C8_Witness ==
  /\ Deserialized(1, "PatientSerializer") /\ proc[1].op = "deserialize"
  /\ proc[1].arg0 = PyList(<<PyDict(<< <<"name", PyStr("Alice")>> >>)>>)
  /\ proc[1].res = Raise("KeyError")

\* C9: deserialize of records of which one carries a key beyond the required
\* ones raises a SchemaError (TypeError, or KeyError when observations is
\* absent too): the record is not accepted and the key is not dropped.
C9_ExtraKeyIsSchemaError ==
  \A p \in Procs :
    /\ (Deserialized(p, "PatientSerializer")
         /\ (HasExtraKey(Given(p), "Patient") \/ SomeObservations(Given(p), ObsHasExtraKey)))
         => Fails(p, "SchemaError")
    /\ (Deserialized(p, "ObservationSerializer") /\ HasExtraKey(Given(p), "Observation"))
         => Fails(p, "SchemaError")

C9_Witness ==
  /\ Deserialized(1, "PatientSerializer") /\ proc[1].op = "deserialize"
  /\ proc[1].arg0 =
       PyList(<<PyDict(<< <<"name", PyStr("Alice")>>, <<"observations", PyList(<<G03>>)>>,
                          <<"age", PyInt(30)>> >>)>>)
  /\ proc[1].res = Raise("TypeError")

\* obs is a sequence of observation records, each with exactly day and value,
\* of which one holds a day that is no integer or a value that is no number.
ObsWrongType(obs) ==
  /\ IsSeqOfMappings(obs)
  /\ \A i \in 1..Len(obs[2]) : DictKeys(obs[2][i]) = {"day", "value"}
  /\ \E i \in 1..Len(obs[2]) :
       \/ Tag(DictGet(obs[2][i], "day")) # "int"
       \/ Tag(DictGet(obs[2][i], "value")) # "int"

\* data is a sequence of patient records, each with exactly name and
\* observations, of which one holds a name that is no string.
NameWrongType(data) ==
  /\ IsSeqOfMappings(data)
  /\ \A i \in 1..Len(data[2]) : DictKeys(data[2][i]) = {"name", "observations"}
  /\ \E i \in 1..Len(data[2]) : Tag(DictGet(data[2][i], "name")) # "str"

\* C10: deserialize of records whose required keys are all there, one of them
\* holding a value of the wrong primitive type, raises a SchemaError.
C10_WrongTypeIsSchemaError ==
  \A p \in Procs :
    /\ (Deserialized(p, "PatientSerializer")
         /\ (NameWrongType(Given(p)) \/ SomeObservations(Given(p), ObsWrongType)))
         => Fails(p, "SchemaError")
    /\ (Deserialized(p, "ObservationSerializer") /\ ObsWrongType(Given(p)))
         => Fails(p, "SchemaError")

\* C11: serialize changes nothing of what it is given: after a call of
\* PatientSerializer.serialize or ObservationSerializer.serialize, alone or
\* inside save, the sequence and every record in it are what they were.
C11_SerializeKeepsInputs ==
  \A p \in Procs :
    "serialize" \in Range(proc[p].trace) => proc[p].arg = proc[p].arg0

C11_Witness ==
  /\ Done(1) /\ proc[1].op = "serialize" /\ proc[1].cls = "PatientSerializer"
  /\ proc[1].arg0 = AliceAndBob
  /\ proc[1].res = Ok(TwoPatients)
  /\ proc[1].arg = AliceAndBob

\* a and b are sequences of as many mappings, the i-th of a with the keys of
\* the i-th of b and the same value at each key, in whatever order the keys are.
SameRecords(a, b) ==
  /\ Tag(a) = "list" /\ Tag(b) = "list"
  /\ Len(Items(a)) = Len(Items(b))
  /\ \A i \in 1..Len(Items(a)) :
       LET x == Items(a)[i]
           y == Items(b)[i]
       IN /\ Tag(x) = "dict" /\ Tag(y) = "dict"
          /\ DictKeys(x) = DictKeys(y)
          /\ \A k \in DictKeys(x) : DictGet(x, k) = DictGet(y, k)

\* C12: PatientSerializer.deserialize changes nothing of what it is given:
\* after it has returned, data and every mapping in it hold the keys and the
\* values they held before the call.
C12_DeserializeKeepsData ==
  \A p \in Procs :
    (/\ Done(p) /\ proc[p].op = "deserialize"
     /\ Resolve(proc[p].cls, "deserialize") = "PatientSerializer"
     /\ IsOk(proc[p].res))
      => SameRecords(proc[p].arg, proc[p].arg0)

\* v is a mapping with exactly the keys ks, each once.
HasExactlyKeys(v, ks) ==
  /\ Tag(v) = "dict"
  /\ DictKeys(v) = ks
  /\ Len(Items(v)) = Cardinality(ks)

\* The file is a JSON document, and nothing but it, that is an array of one
\* object per patient of instances, in their order: keys name and observations,
\* observations an array of one {day, value} object per observation, in order.
FileHolds(file, instances) ==
  /\ file.exists
  /\ LET r == json_loads(file.text) IN
     /\ IsOk(r)
     /\ Tag(Val(r)) = "list"
     /\ Len(Items(Val(r))) = Len(Items(instances))
     /\ \A i \in 1..Len(Items(instances)) :
          LET o == Items(Val(r))[i]
              patient == Items(instances)[i]
          IN /\ HasExactlyKeys(o, {"name", "observations"})
             /\ DictGet(o, "name") = Val(GetAttr(patient, "name"))
             /\ LET obs == DictGet(o, "observations")
                    observations == Items(Val(GetAttr(patient, "observations")))
                IN /\ Tag(obs) = "list"
                   /\ Len(Items(obs)) = Len(observations)
                   /\ \A j \in 1..Len(observations) :
                        /\ HasExactlyKeys(Items(obs)[j], {"day", "value"})
                        /\ DictGet(Items(obs)[j], "day")
                             = Val(GetAttr(observations[j], "day"))
                        /\ DictGet(Items(obs)[j], "value")
                             = Val(GetAttr(observations[j], "value"))

\* C13: after a save that returned, the file is a JSON array of one object per
\* patient, in the patients' order, each with exactly the keys name and
\* observations, observations holding one {day, value} object per observation
\* in the patient's order, and nothing else; for the patients of the lesson's
\* example the text is the example's.
C13_SavedFileFormat ==
  \A p \in Procs :
    (/\ Done(p) /\ proc[p].op = "save" /\ proc[p].cls = "PatientJSONSerializer"
     /\ IsOk(proc[p].res))
      => /\ FileHolds(fs[proc[p].path], proc[p].arg0)
         /\ proc[p].arg0 = ExamplePatients => fs[proc[p].path].text = ExampleText

C13_Witness ==
  /\ Done(1) /\ proc[1].op = "save" /\ proc[1].cls = "PatientJSONSerializer"
  /\ proc[1].res = Ok(None)
  /\ proc[1].arg0 = ExamplePatients
  /\ fs[proc[1].path] = File(ExampleText)

\* C14: two callers saving to the same path at once: when both saves have
\* returned, the file is the whole text of the save that closed last, in every
\* interleaving of their steps, and never a mixture of the two texts.
C14_LastWriterWins ==
  \A path \in Paths :
    (\A p \in Procs :
       /\ Done(p) /\ proc[p].op = "save" /\ proc[p].path = path
       /\ IsOk(proc[p].res))
      => /\ saved[path] \in {proc[p].arg0 : p \in Procs}
         /\ fs[path] = File(SavedText(saved[path]))

\* C15: the file object a save or a load opened is closed when the call has
\* returned or raised, whichever step failed: a caller that is in no call, or
\* whose call is over, holds no open file object, and every call that opened
\* the file closed it.
C15_HandleReleased ==
  \A p \in Procs :
    (Done(p) \/ proc[p].pc = "idle")
      => /\ ~proc[p].h.open
         /\ "open" \in Range(proc[p].trace) => "close" \in Range(proc[p].trace)

C15_Witness ==
  /\ Done(1) /\ proc[1].op = "save" /\ proc[1].cls = "PatientJSONSerializer"
  /\ proc[1].res = Raise("TypeError")
  /\ proc[1].trace = <<"open", "serialize", "write", "close">>
  /\ Len(fs[proc[1].path].text) > 0
  /\ ~proc[1].h.open

\* No step of the call was taken twice.
EachStepOnce(trace) ==
  \A i, j \in 1..Len(trace) : trace[i] = trace[j] => i = j

\* C16: save and load recover from nothing: the call ends at the first step
\* that raises, with that step's error as the call's outcome and no result;
\* no step is taken a second time.
C16_ErrorsPropagate ==
  \A p \in Procs :
    (Done(p) /\ proc[p].cls = "PatientJSONSerializer" /\ proc[p].op \in {"save", "load"})
      => /\ EachStepOnce(proc[p].trace)
         /\ ~(IsOk(proc[p].res) /\ IsRaise(proc[p].res))
         /\ "open" \notin Range(proc[p].trace)
              => proc[p].trace = <<>> /\ Fails(p, "IOError")
         /\ (proc[p].op = "save" /\ "open" \in Range(proc[p].trace))
              => LET r == PatientSerializer_serialize(proc[p].arg0) IN
                 IF IsRaise(r)
                 THEN proc[p].res = r /\ proc[p].trace = <<"open", "serialize", "close">>
                 ELSE IF ~iterencode(Val(r)).ok
                 THEN /\ proc[p].res = Raise("TypeError")
                      /\ proc[p].trace = <<"open", "serialize", "write", "close">>
                 ELSE proc[p].res \in {Ok(None), Raise("OSError")}
         /\ (proc[p].op = "load" /\ "open" \in Range(proc[p].trace))
              => LET r == json_loads(proc[p].seen) IN
                 IF IsRaise(r)
                 THEN proc[p].res = r /\ proc[p].trace = <<"open", "read", "close">>
                 ELSE /\ proc[p].res = PatientSerializer_deserialize(Val(r)).res
                      /\ proc[p].trace = <<"open", "read", "close", "deserialize">>

C16_Witness ==
  /\ Done(1) /\ proc[1].op = "save" /\ proc[1].cls = "PatientJSONSerializer"
  /\ proc[1].arg0 = PyList(<<PyInt(5)>>)
  /\ proc[1].trace = <<"open", "serialize", "close">>
  /\ proc[1].res = Raise("AttributeError")

\* C17: ObservationSerializer.serialize of n observations returns n mappings,
\* the i-th with exactly the keys day and value, holding the day and the value
\* of the i-th observation.
C17_ObservationSerialize ==
  \A p \in Procs :
    (/\ Done(p) /\ proc[p].op = "serialize" /\ proc[p].cls = "ObservationSerializer"
     /\ proc[p].arg0 \in ObsLists)
      => /\ IsOk(proc[p].res)
         /\ Tag(Val(proc[p].res)) = "list"
         /\ Len(Items(Val(proc[p].res))) = Len(Items(proc[p].arg0))
         /\ \A i \in 1..Len(Items(proc[p].arg0)) :
              LET d == Items(Val(proc[p].res))[i]
                  observation == Items(proc[p].arg0)[i]
              IN /\ HasExactlyKeys(d, {"day", "value"})
                 /\ DictGet(d, "day") = Val(GetAttr(observation, "day"))
                 /\ DictGet(d, "value") = Val(GetAttr(observation, "value"))

C17_Witness ==
  /\ Done(1) /\ proc[1].op = "serialize" /\ proc[1].cls = "ObservationSerializer"
  /\ proc[1].arg0 = AliceObs(2)
  /\ proc[1].res = Ok(PyList(<<PyDict(<< <<"day", PyInt(0)>>, <<"value", PyInt(1)>> >>),
                               PyDict(<< <<"day", PyInt(1)>>, <<"value", PyInt(2)>> >>)>>))

\* C18: PatientSerializer.serialize of n patients returns n mappings, the i-th
\* with exactly the keys name and observations: the i-th patient's name, and
\* what ObservationSerializer.serialize returns of the i-th patient's
\* observations, each element of which is a mapping and no Observation.
C18_PatientSerialize ==
  \A p \in Procs :
    (/\ Done(p) /\ proc[p].op = "serialize" /\ proc[p].cls = "PatientSerializer"
     /\ proc[p].arg0 \in PatientBatches)
      => /\ IsOk(proc[p].res)
         /\ Tag(Val(proc[p].res)) = "list"
         /\ Len(Items(Val(proc[p].res))) = Len(Items(proc[p].arg0))
         /\ \A i \in 1..Len(Items(proc[p].arg0)) :
              LET d == Items(Val(proc[p].res))[i]
                  patient == Items(proc[p].arg0)[i]
              IN /\ HasExactlyKeys(d, {"name", "observations"})
                 /\ DictGet(d, "name") = Val(GetAttr(patient, "name"))
                 /\ Ok(DictGet(d, "observations"))
                      = ObservationSerializer_serialize(Val(GetAttr(patient, "observations")))
                 /\ \A o \in Range(Items(DictGet(d, "observations"))) : Tag(o) = "dict"

C18_Witness ==
  /\ Done(1) /\ proc[1].op = "serialize" /\ proc[1].cls = "PatientSerializer"
  /\ proc[1].arg0 = ExamplePatients
  /\ IsOk(proc[1].res)
  /\ Text(Val(proc[1].res)) = ExampleText

\* C19: PatientSerializer.deserialize of n well-formed mappings returns n
\* patients in the order of the mappings, the i-th with the i-th mapping's name
\* and, as observations, one Observation (no mapping) per element of the i-th
\* mapping's observations, in order, with that element's day and value.
C19_PatientDeserialize ==
  \A p \in Procs :
    (/\ Done(p) /\ proc[p].op = "deserialize" /\ proc[p].cls = "PatientSerializer"
     /\ proc[p].arg0 \in WellFormedData)
      => /\ IsOk(proc[p].res)
         /\ Tag(Val(proc[p].res)) = "list"
         /\ Len(Items(Val(proc[p].res))) = Len(Items(proc[p].arg0))
         /\ \A i \in 1..Len(Items(proc[p].arg0)) :
              LET patient == Items(Val(proc[p].res))[i]
                  d == Items(proc[p].arg0)[i]
                  obs == Items(DictGet(d, "observations"))
              IN /\ Tag(patient) = "Patient"
                 /\ GetAttr(patient, "name") = Ok(DictGet(d, "name"))
                 /\ GetAttr(patient, "observations")
                      = ObservationSerializer_deserialize(DictGet(d, "observations"))
                 /\ LET observations == Items(Val(GetAttr(patient, "observations"))) IN
                    /\ Len(observations) = Len(obs)
                    /\ \A j \in 1..Len(obs) :
                         /\ Tag(observations[j]) = "Observation"
                         /\ GetAttr(observations[j], "day") = Ok(DictGet(obs[j], "day"))
                         /\ GetAttr(observations[j], "value") = Ok(DictGet(obs[j], "value"))

C19_Witness ==
  /\ Done(1) /\ proc[1].op = "deserialize" /\ proc[1].cls = "PatientSerializer"
  /\ proc[1].arg0 = TwoPatients
  /\ proc[1].res = Ok(AliceAndBob)

\* C20: save serializes first and touches the destination after: as long as
\* serialize(instances) has not returned a value in a save, the save has not
\* opened the file and the file at path is what it was before the call.
C20_SerializeBeforeOpen ==
  \A p \in Procs :
    (/\ proc[p].op = "save" /\ proc[p].cls = "PatientJSONSerializer"
     /\ \/ "serialize" \notin Range(proc[p].trace)
        \/ IsRaise(PatientSerializer_serialize(proc[p].arg0)))
      => /\ "open" \notin Range(proc[p].trace)
         /\ fs[proc[p].path] = proc[p].pre[proc[p].path]

\* C21: save and load of ObservationSerializer and of PatientSerializer are
\* those of Serializer: they raise NotImplementedError and touch no file;
\* serialize and deserialize of the two classes never raise it.
C21_FormatlessSaveLoad ==
  \A p \in Procs :
    (Done(p) /\ proc[p].cls \in {"ObservationSerializer", "PatientSerializer"})
      => /\ proc[p].op \in {"save", "load"}
              => /\ proc[p].res = Raise("NotImplementedError")
                 /\ proc[p].trace = <<>>
                 /\ fs = proc[p].pre
         /\ proc[p].op \in {"serialize", "deserialize"}
              => /\ ~Fails(p, "NotImplemented")
                 /\ proc[p].trace = <<proc[p].op>>

C21_Witness ==
  /\ Done(1) /\ proc[1].cls = "PatientSerializer" /\ proc[1].op = "save"
  /\ proc[1].arg0 = PyList(<<Carol>>)
  /\ proc[1].res = Raise("NotImplementedError")
  /\ fs = proc[1].pre

\* Some patient of instances has at least one observation.
SomeObservation(instances) ==
  \E patient \in Range(Items(instances)) :
    Len(Items(Val(GetAttr(patient, "observations")))) > 0

\* C22: with the first PatientSerializer, whose serialize stores
\* instance.observations as it is, a save that opened its file raises TypeError
\* (an Observation cannot be encoded as JSON) when some patient has an
\* observation, and, when no patient has one, writes the patients and returns
\* unless the device refuses the write.
C22_FirstVersionTypeError ==
  \A p \in Procs :
    (/\ Done(p) /\ proc[p].op = "save" /\ "open" \in Range(proc[p].trace)
     /\ proc[p].arg0 \in PatientBatches)
      => IF SomeObservation(proc[p].arg0)
         THEN proc[p].res = Raise("TypeError")
         ELSE \/ proc[p].res = Raise("OSError")
              \/ /\ proc[p].res = Ok(None)
                 /\ FileHolds(fs[proc[p].path], proc[p].arg0)

C22_Witness ==
  /\ Done(1) /\ proc[1].op = "save"
  /\ proc[1].arg0 = ExamplePatients
  /\ proc[1].res = Raise("TypeError")
  /\ fs[proc[1].path].text
       = <<P("["), P("{"), TStr("name"), P(":"), TStr("Alice"), P(","),
           TStr("observations"), P(":"), P("[")>>

\* C23: PatientSerializer.deserialize called a second time on the data object
\* of a call that returned returns again, and returns patients equal, field by
\* field, to those of the first call.
C23_DeserializeTwice ==
  \A p \in Procs :
    (/\ Done(p) /\ proc[p].op = "deserialize" /\ proc[p].cls = "PatientSerializer"
     /\ proc[p].first # None)
      => proc[p].res = proc[p].first

\* C24: a load that follows saves to the same path, each of which returned,
\* returns the patients of the last of them, whatever the earlier ones wrote
\* and however much longer their text was.
C24_LastSaveWins ==
  \A p \in Procs :
    (/\ Done(p) /\ proc[p].op = "load" /\ proc[p].cls = "PatientJSONSerializer"
     /\ Len(proc[p].earlier) > 0)
      => /\ proc[p].res = Ok(proc[p].earlier[Len(proc[p].earlier)])
         /\ proc[p].seen = SavedText(proc[p].earlier[Len(proc[p].earlier)])

C24_Witness ==
  /\ Done(1) /\ proc[1].op = "load" /\ proc[1].cls = "PatientJSONSerializer"
  /\ proc[1].earlier = <<ExamplePatients, PyList(<<>>)>>
  /\ proc[1].res = Ok(PyList(<<>>))

\* C25: a load running while another caller saves to the same path, which held
\* the whole text of an earlier save when the save and the load began, returns
\* the patients of the earlier save or those of the save in progress, and
\* never raises.
C25_LoadDuringSave ==
  \A p, q \in Procs :
    (/\ Done(p) /\ proc[p].op = "load"
     /\ proc[q].op = "save" /\ proc[q].path = proc[p].path
     /\ "open" \in Range(proc[q].trace)
     /\ proc[q].pc \in {"save_opened", "save_serialized", "save_dumped"}
     /\ proc[p].pre[proc[p].path] = proc[q].pre[proc[q].path]
     /\ \E b \in PatientBatches : proc[q].pre[proc[q].path] = File(SavedText(b)))
      => \E b \in PatientBatches :
           /\ proc[p].res = Ok(b)
           /\ \/ proc[q].pre[proc[q].path] = File(SavedText(b))
              \/ b = proc[q].arg0

\* C26: load has read and parsed the file and closed it before it calls
\* deserialize: no file object is open while deserialize runs, nor after it
\* raised, and the steps of a load that reached deserialize are open, read,
\* close, deserialize.
C26_LoadClosesBeforeDeserialize ==
  \A p \in Procs :
    (proc[p].op = "load" /\ proc[p].cls = "PatientJSONSerializer")
      => /\ proc[p].pc = "load_closed" => ~proc[p].h.open
         /\ "deserialize" \in Range(proc[p].trace)
              => /\ proc[p].trace = <<"open", "read", "close", "deserialize">>
                 /\ ~proc[p].h.open
                 /\ json_loads(proc[p].seen) = Ok(proc[p].tmp)

C26_Witness ==
  /\ Done(1) /\ proc[1].op = "load" /\ proc[1].cls = "PatientJSONSerializer"
  /\ proc[1].trace = <<"open", "read", "close", "deserialize">>
  /\ proc[1].res = Raise("KeyError")
  /\ ~proc[1].h.open

\* C27: for well-formed data D (mappings with exactly name and observations,
\* observations of mappings with exactly day and value), serialize applied to
\* what deserialize returned of D returns mappings equal to those of D as it
\* was before the call.
C27_DeserializeSerialize ==
  \A p \in Procs :
    (/\ Done(p) /\ proc[p].op = "serialize" /\ proc[p].cls = "PatientSerializer"
     /\ proc[p].origin \in WellFormedData)
      => /\ IsOk(proc[p].res)
         /\ SameRecords(Val(proc[p].res), proc[p].origin)

C27_Witness ==
  /\ Done(1) /\ proc[1].op = "serialize" /\ proc[1].cls = "PatientSerializer"
  /\ proc[1].origin = TwoPatients
  /\ proc[1].arg0 = AliceAndBob
  /\ proc[1].res = Ok(TwoPatients)

Empty == PyList(<<>>)

\* C28: empty inputs raise nothing: serialize and deserialize of an empty
\* sequence return an empty sequence; a save of an empty sequence that returned
\* left the text [] and fails, if at all, on the device only; a load of the
\* text [] returns an empty sequence; and a load after a save gives every
\* patient saved with no observations back with an empty observation sequence.
C28_EmptyInputs ==
  \A p \in Procs :
    Done(p) =>
      /\ (/\ proc[p].op \in {"serialize", "deserialize"}
          /\ proc[p].cls \in {"ObservationSerializer", "PatientSerializer"}
          /\ proc[p].arg0 = Empty)
           => proc[p].res = Ok(Empty) /\ proc[p].arg = Empty
      /\ (/\ proc[p].op = "save" /\ proc[p].cls = "PatientJSONSerializer"
          /\ proc[p].arg0 = Empty)
           => \/ Fails(p, "IOError")
              \/ proc[p].res = Ok(None) /\ fs[proc[p].path] = File(<<P("["), P("]")>>)
      /\ (/\ proc[p].op = "load" /\ proc[p].cls = "PatientJSONSerializer"
          /\ proc[p].seen = <<P("["), P("]")>>)
           => proc[p].res = Ok(Empty)
      /\ (/\ proc[p].op = "load" /\ proc[p].cls = "PatientJSONSerializer"
          /\ Len(proc[p].earlier) > 0)
           => LET instances == Items(proc[p].earlier[Len(proc[p].earlier)]) IN
              /\ IsOk(proc[p].res)
              /\ Len(Items(Val(proc[p].res))) = Len(instances)
              /\ \A i \in 1..Len(instances) :
                   GetAttr(instances[i], "observations") = Ok(Empty)
                     => /\ Items(Val(proc[p].res))[i]
                             = Patient(Val(GetAttr(instances[i], "name")), Empty)

C28_Witness ==
  /\ Done(1) /\ proc[1].op = "load" /\ proc[1].cls = "PatientJSONSerializer"
  /\ proc[1].earlier = <<PyList(<<Patient(PyStr("Alice"), Empty)>>), Empty>>
  /\ proc[1].seen = <<P("["), P("]")>>
  /\ proc[1].res = Ok(Empty)

====
